---- MODULE Spec2Model ----
(***************************************************************************)
(* Model of the top-up / withdrawal back end of app.rayanxweb.topup.       *)
(*                                                                         *)
(* The repository holds three revisions of the server, each a complete     *)
(* express application with its own storage:                               *)
(*   "inmemory"  src/unnamed/part_001 lines 1-204  (maps in the process)   *)
(*   "firestore" src/unnamed/part_000              (Firestore + id token)  *)
(*   "server"    src/server.js lines 1-213         (Firestore, no ledger)  *)
(* The variable program says which revision is running; it never changes.  *)
(*                                                                         *)
(* Node runs one callback at a time, so a handler runs atomically from one *)
(* await to the next.  Each action below is one such run.  Request amounts *)
(* are JSON integers or absent; webhook fields are strings or absent.      *)
(***************************************************************************)
EXTENDS Integers, Sequences, FiniteSets, TLC

\* ---- bounds of the model ----
MaxOrders == 2       \* order ids the uuid generator hands out
MaxRequests == 4     \* requests received over a run
MaxDay == 1          \* calendar days after the first one
NumSlots == 2        \* requests being handled at the same time

Slots == 1..NumSlots
Days == 0..MaxDay
Users == {"u1", "u2"}

\* ---- configuration ----
MIN_TOPUP == 10000
DEFAULT_MAX_WITHDRAW == 10000000
DAILY_WITHDRAW_LIMIT == 20000000
MaxWithdrawSettings == {DEFAULT_MAX_WITHDRAW, 15000000}
MIDTRANS_SERVER_KEY == "#key"

\* ---- JavaScript values ----
UNDEF == "undefined"
Undefined == [t |-> "undefined", v |-> 0]
NaN == [t |-> "NaN", v |-> 0]
Num(n) == [t |-> "number", v |-> n]

\* !v for a number, NaN or undefined
Falsy(v) == v.t # "number" \/ v.v = 0
\* (v || 0) for a number, NaN or undefined
OrZero(v) == IF v.t = "number" THEN v.v ELSE 0
\* a - n where a is a number, NaN or undefined and n an integer
JsMinus(a, n) == IF a.t = "number" THEN Num(a.v - n) ELSE NaN
\* String(n) of a non-negative integer, as its decimal digits
RECURSIVE ToDigits(_)
ToDigits(n) == IF n < 10 THEN <<n>> ELSE Append(ToDigits(n \div 10), n % 10)
\* the number a sequence of decimal digits reads as
RECURSIVE FromDigits(_)
FromDigits(ds) ==
  IF ds = <<>> THEN 0
  ELSE 10 * FromDigits(SubSeq(ds, 1, Len(ds) - 1)) + ds[Len(ds)]
ParseIntTruncated(n) == FromDigits(SubSeq(ToDigits(n), 1, 5))
\* parseInt(n) of a non-negative integer: the number is turned into its
\* decimal text and the digits are read back
ParseInt(n) == FromDigits(ToDigits(n))

\* obj[k] on a JavaScript object used as a map
Lookup(obj, k) == IF k \in DOMAIN obj THEN obj[k] ELSE Undefined
PutNothing(obj, k, v) == obj
\* obj[k] = v
Put(obj, k, v) == [x \in (DOMAIN obj) \cup {k} |-> IF x = k THEN v ELSE obj[x]]
DeleteEvery(obj, k) == [x \in {} |-> obj[x]]
\* delete obj[k]
Delete(obj, k) == [x \in (DOMAIN obj) \ {k} |-> obj[x]]
EmptyObj == [x \in {} |-> Undefined]

\* ---- order ids ----
RECURSIVE Uuid(_)
Uuid(i) == IF i = 0 THEN "" ELSE Uuid(i - 1) \o "x"
OrderPrefix(prog) == IF prog = "firestore" THEN "TOP-" ELSE "TOPUP-"
OrderId(prog, i) == OrderPrefix(prog) \o Uuid(i)
OrderIds(prog) == {OrderId(prog, i) : i \in 1..MaxOrders}
ForeignOrder == "FOREIGN-1"

\* ---- signature ----
\* sha512 hex digest: modelled as collision free, one digest per input text
Sha512Hex(text) == "sha512(" \o text \o ")"
\* order_id + status_code + gross_amount + server key; an absent field
\* concatenates as the text "undefined"
ExpectedSignature(n) ==
  Sha512Hex(n.order_id \o n.status_code \o n.gross_amount \o MIDTRANS_SERVER_KEY)
SignatureOkAlways(n) == TRUE
SignatureOk(n) == n.signature_key = ExpectedSignature(n)

VARIABLES
  program,          \* which revision runs
  MAX_WITHDRAW,     \* part_001:17, read from the environment at start
  day,              \* calendar day of the server clock (UTC)
  nreq,             \* requests received so far
  nextOrder,        \* number of order ids generated so far
  reqs,             \* per slot: the request suspended at an await, if any
  last,             \* the response sent most recently, with its request
  issued,           \* gateway side: order ids with a Snap transaction
  balances,         \* part_001:35
  pendingOrders,    \* part_001:36
  processedOrders,  \* part_001:37
  withdrawHistory,  \* part_001:38
  transactions,     \* Firestore collection "transactions"
  users,            \* Firestore collection "users"
  withdraw_requests,\* Firestore collection "withdraw_requests" (part_000)
  withdrawals,      \* Firestore collection "withdrawals" (server.js)
  created,          \* history: order id -> user and amount it was created with
  credits,          \* history: order id -> number of times it was credited
  settled,          \* history: order id -> number of times it was marked settled
  admitted          \* history: user -> day -> sum of the admitted withdrawals

stores == <<balances, pendingOrders, processedOrders, withdrawHistory,
            transactions, users, withdraw_requests, withdrawals>>
history == <<created, credits, settled, admitted>>
vars == <<program, MAX_WITHDRAW, day, nreq, nextOrder, reqs, last, issued,
          stores, history>>

NoArgs == [none |-> TRUE]
Idle == [pc |-> "idle", kind |-> "none", args |-> NoArgs, loc |-> NoArgs]
NoResponse == [kind |-> "none", args |-> NoArgs, status |-> 0, msg |-> ""]

\* res.status(status).json/send(msg): the handler of slot p is finished
Respond(p, kind, args, status, msg) ==
  /\ last' = [kind |-> kind, args |-> args, status |-> status, msg |-> msg]
  /\ reqs' = [reqs EXCEPT ![p] = Idle]
\* the handler of slot p is suspended at an await
Await(p, kind, args, pc, loc) ==
  /\ reqs' = [reqs EXCEPT ![p] = [pc |-> pc, kind |-> kind, args |-> args, loc |-> loc]]
  /\ last' = last

Free(p) == reqs[p].pc = "idle"
CanReceive(p) == Free(p) /\ nreq < MaxRequests

\* ---- requests the outside world can send ----
TxStatuses == {"settlement", "capture", "expire", "pending"}
StatusCodeOf(ts) ==
  IF ts \in {"settlement", "capture"} THEN "200"
  ELSE IF ts = "pending" THEN "201" ELSE "202"
GrossAmount == "10000.00"
AlteredGrossAmount == "99999.00"

\* what the gateway sends for order o in transaction status ts
Genuine(o, ts) ==
  LET f == [order_id |-> o, status_code |-> StatusCodeOf(ts),
            gross_amount |-> GrossAmount]
  IN [order_id |-> o, status_code |-> StatusCodeOf(ts),
      gross_amount |-> GrossAmount,
      signature_key |-> ExpectedSignature(f),
      transaction_status |-> ts]

\* a settlement notification altered on its way, or made up
Tampered(o) ==
  LET g == Genuine(o, "settlement")
  IN { [g EXCEPT !.gross_amount = AlteredGrossAmount],
       [g EXCEPT !.signature_key = "bad"],
       [g EXCEPT !.signature_key = UNDEF],
       [g EXCEPT !.status_code = UNDEF],
       [g EXCEPT !.order_id = UNDEF] }

\* a notification signed for "pending" whose transaction_status was rewritten
Restated(o) == [Genuine(o, "pending") EXCEPT !.transaction_status = "settlement"]

\* orders that can be paid: the client holds the Snap token, which leaves
\* the server in the response sent by the run that stores the order
\* (part_001:72-81, part_000:91-100, server.js:99-110)
Payable == issued \cap DOMAIN created

\* the gateway notifies about orders that can be paid, or about foreign
\* orders, and signs only those notifications
Notifications ==
  LET known == Payable \cup {ForeignOrder}
  IN {Genuine(o, ts) : o \in known, ts \in TxStatuses}
     \cup UNION {Tampered(o) : o \in known}
     \cup {Restated(o) : o \in known}

TopupAmounts == {Undefined, Num(MIN_TOPUP - 1), Num(MIN_TOPUP), Num(30000000)}
WithdrawAmounts == {Undefined, Num(0), Num(0 - 10000), Num(10000), Num(15000000)}
Tokens == {"token-u1", "token-u2"}
BadTokens == {"forged", UNDEF}

\* bodies of POST /api/topup (part_001, server.js) and POST /api/payment
TopupBodies ==
  {[userId |-> u, amount |-> a] : u \in Users, a \in TopupAmounts}
  \cup {[userId |-> UNDEF, amount |-> Num(MIN_TOPUP)]}
PaymentBodies ==
  {[token |-> t, amount |-> a] : t \in Tokens, a \in TopupAmounts}
  \cup {[token |-> t, amount |-> Num(MIN_TOPUP)] : t \in BadTokens}
\* bodies of POST /api/withdraw in part_001, part_000 and server.js
WithdrawBodies ==
  {[userId |-> u, amount |-> a] : u \in Users, a \in WithdrawAmounts}
  \cup {[userId |-> UNDEF, amount |-> Num(10000)]}
WithdrawFsBodies ==
  {[token |-> t, amount |-> a] : t \in Tokens, a \in WithdrawAmounts}
  \cup {[token |-> t, amount |-> Num(10000)] : t \in BadTokens}
WithdrawSrvBodies ==
  {[uid |-> u, amount |-> a, bankAccount |-> "acct"] : u \in Users, a \in WithdrawAmounts}
  \cup {[uid |-> UNDEF, amount |-> Num(10000), bankAccount |-> "acct"],
        [uid |-> "u1", amount |-> Num(10000), bankAccount |-> UNDEF]}

\* ---- history bookkeeping ----
Credit(o) == [credits EXCEPT ![o] = @ + 1]
Settle(o) == [settled EXCEPT ![o] = @ + 1]
Admit(u, d, amount) == [admitted EXCEPT ![u][d] = @ + amount]

(***************************************************************************)
(* Revision "inmemory": src/unnamed/part_001 lines 1-204                   *)
(***************************************************************************)

TopupInvalidOffByOne(a) ==
  a.userId = UNDEF \/ Falsy(a.amount) \/ a.amount.v < MIN_TOPUP - 1
\* part_001:56
TopupInvalid(a) ==
  a.userId = UNDEF \/ Falsy(a.amount) \/ a.amount.v < MIN_TOPUP

\* POST /api/topup up to the await: validation, order id, gateway call.
\* The gateway either creates the Snap transaction or the call fails.
Topup_Begin(p) ==
  /\ program = "inmemory"
  /\ CanReceive(p)
  /\ \E a \in TopupBodies :
       IF TopupInvalid(a)
       THEN /\ Respond(p, "topup", a, 400, "Invalid request")
            /\ UNCHANGED <<nextOrder, issued>>
       ELSE /\ nextOrder < MaxOrders
            /\ nextOrder' = nextOrder + 1
            /\ \/ /\ issued' = issued \cup {OrderId(program, nextOrder')}
                  /\ Await(p, "topup", a, "createTransaction",
                             [orderId |-> OrderId(program, nextOrder')])
               \/ /\ issued' = issued
                  /\ Respond(p, "topup", a, 500, "Transaction error")
  /\ nreq' = nreq + 1
  /\ UNCHANGED <<program, MAX_WITHDRAW, day, stores, history>>

\* POST /api/topup after the await: the order is kept as pending
Topup_Store(p) ==
  /\ program = "inmemory"
  /\ reqs[p].kind = "topup" /\ reqs[p].pc = "createTransaction"
  /\ LET o == reqs[p].loc.orderId
         a == reqs[p].args
     IN /\ pendingOrders' = Put(pendingOrders, o, [userId |-> a.userId, amount |-> a.amount.v])
        /\ created' = Put(created, o, [userId |-> a.userId, amount |-> a.amount.v])
        /\ Respond(p, "topup", a, 200, o)
  /\ UNCHANGED <<program, MAX_WITHDRAW, day, nreq, nextOrder, issued,
                 balances, processedOrders, withdrawHistory,
                 transactions, users, withdraw_requests, withdrawals,
                 credits, settled, admitted>>

\* part_001:110
AlreadyProcessed(done, o) == o \in done

IsSettlementOrPending(n) ==
  n.transaction_status \in {"settlement", "capture", "pending"}
\* part_001:114-118
IsSettlement(n) == n.transaction_status \in {"settlement", "capture"}

\* POST /api/midtrans/webhook: synchronous, one run
Webhook(p) ==
  /\ program = "inmemory"
  /\ CanReceive(p)
  /\ \E n \in Notifications :
       LET o == n.order_id
       IN IF ~SignatureOk(n)
          THEN /\ Respond(p, "webhook", n, 403, "Invalid signature")
               /\ UNCHANGED <<balances, pendingOrders, processedOrders, credits, settled>>
          ELSE IF AlreadyProcessed(processedOrders, o)
          THEN /\ Respond(p, "webhook", n, 200, "Already processed")
               /\ UNCHANGED <<balances, pendingOrders, processedOrders, credits, settled>>
          ELSE IF IsSettlement(n) /\ o \in DOMAIN pendingOrders
          THEN LET userId == pendingOrders[o].userId
                   amount == pendingOrders[o].amount
               IN /\ balances' = Put(balances, userId,
                        Num(OrZero(Lookup(balances, userId)) + ParseInt(amount)))
                  /\ processedOrders' = processedOrders \cup {o}
                  /\ pendingOrders' = Delete(pendingOrders, o)
                  /\ credits' = Credit(o)
                  /\ settled' = Settle(o)
                  /\ Respond(p, "webhook", n, 200, "Webhook processed")
          ELSE /\ Respond(p, "webhook", n, 200, "Webhook processed")
               /\ UNCHANGED <<balances, pendingOrders, processedOrders, credits, settled>>
  /\ nreq' = nreq + 1
  /\ UNCHANGED <<program, MAX_WITHDRAW, day, nextOrder, issued, withdrawHistory,
                 transactions, users, withdraw_requests, withdrawals,
                 created, admitted>>

\* part_001:158
ExceedsMax(amount, max) == amount > max
\* part_001:162
InsufficientNever(balance, amount) == FALSE
InsufficientOnlyWhenEmpty(balance, amount) == balance = 0
Insufficient(balance, amount) == balance < amount
\* part_001:174
OverDailyLimitNever(todayTotal, amount) == FALSE
OverDailyLimit(todayTotal, amount) == todayTotal + amount > DAILY_WITHDRAW_LIMIT

\* withdrawHistory[userId][today] || 0, part_001:172
TodayTotal(hist, u, today) ==
  IF u \in DOMAIN hist THEN OrZero(Lookup(hist[u], today)) ELSE 0

\* the checks of POST /api/withdraw in their order, part_001:154-176:
\* the message of the 400 response, or "" when the request is admitted
WithdrawOutcome(a, balance, todayTotal, max) ==
  IF a.userId = UNDEF \/ Falsy(a.amount) THEN "Invalid request"
  ELSE IF ExceedsMax(a.amount.v, max) THEN "Exceeds max withdraw"
  ELSE IF Insufficient(balance, a.amount.v) THEN "Insufficient balance"
  ELSE IF OverDailyLimit(todayTotal, a.amount.v) THEN "Daily limit exceeded"
  ELSE ""

\* POST /api/withdraw: synchronous, one run
Withdraw(p) ==
  /\ program = "inmemory"
  /\ CanReceive(p)
  /\ \E a \in WithdrawBodies :
       LET u == a.userId
           today == day
           hist == IF u \in DOMAIN withdrawHistory THEN withdrawHistory[u] ELSE EmptyObj
           todayTotal == TodayTotal(withdrawHistory, u, today)
           outcome == WithdrawOutcome(a, OrZero(Lookup(balances, u)), todayTotal, MAX_WITHDRAW)
       IN IF outcome = ""
          THEN /\ balances' = Put(balances, u, JsMinus(Lookup(balances, u), a.amount.v))
               /\ withdrawHistory' = Put(withdrawHistory, u,
                                         Put(hist, today, Num(todayTotal + a.amount.v)))
               /\ admitted' = Admit(u, today, a.amount.v)
               /\ Respond(p, "withdraw", a, 200, "Withdraw success (simulation)")
          ELSE /\ withdrawHistory' = IF outcome = "Daily limit exceeded"
                                     THEN Put(withdrawHistory, u, hist)
                                     ELSE withdrawHistory
               /\ Respond(p, "withdraw", a, 400, outcome)
               /\ UNCHANGED <<balances, admitted>>
  /\ nreq' = nreq + 1
  /\ UNCHANGED <<program, MAX_WITHDRAW, day, nextOrder, issued,
                 pendingOrders, processedOrders,
                 transactions, users, withdraw_requests, withdrawals,
                 created, credits, settled>>

(***************************************************************************)
(* Revision "firestore": src/unnamed/part_000                              *)
(***************************************************************************)

\* admin.auth().verifyIdToken: the uid the token was issued for, or a throw
VerifyIdToken(token) ==
  IF token = "token-u1" THEN "u1"
  ELSE IF token = "token-u2" THEN "u2" ELSE "throws"

\* verifyToken, part_000:61-72: the 401 message, or "" when next() is called
VerifyToken(token) ==
  IF token = UNDEF THEN "Unauthorized"
  ELSE IF VerifyIdToken(token) = "throws" THEN "Invalid Token" ELSE ""

\* userDoc.data().balance || 0
DocBalance(doc) == doc.balance

\* POST /api/payment up to the gateway call
Payment_Begin(p) ==
  /\ program = "firestore"
  /\ CanReceive(p)
  /\ \E a \in PaymentBodies :
       IF VerifyToken(a.token) # ""
       THEN /\ Respond(p, "payment", a, 401, VerifyToken(a.token))
            /\ UNCHANGED <<nextOrder, issued>>
       ELSE IF Falsy(a.amount) \/ a.amount.v < 10000
       THEN /\ Respond(p, "payment", a, 400, "Minimal topup 10.000")
            /\ UNCHANGED <<nextOrder, issued>>
       ELSE /\ nextOrder < MaxOrders
            /\ nextOrder' = nextOrder + 1
            /\ \/ /\ issued' = issued \cup {OrderId(program, nextOrder')}
                  /\ Await(p, "payment", a, "createTransaction",
                           [orderId |-> OrderId(program, nextOrder'),
                            uid |-> VerifyIdToken(a.token)])
               \/ /\ issued' = issued
                  /\ Respond(p, "payment", a, 500, "error")
  /\ nreq' = nreq + 1
  /\ UNCHANGED <<program, MAX_WITHDRAW, day, stores, history>>

\* POST /api/payment after the gateway call: the transaction document is set
Payment_Store(p) ==
  /\ program = "firestore"
  /\ reqs[p].kind = "payment" /\ reqs[p].pc = "createTransaction"
  /\ LET o == reqs[p].loc.orderId
         a == reqs[p].args
     IN /\ transactions' = Put(transactions, o,
              [uid |-> reqs[p].loc.uid, amount |-> a.amount.v, status |-> "pending"])
        /\ created' = Put(created, o, [userId |-> reqs[p].loc.uid, amount |-> a.amount.v])
        /\ Respond(p, "payment", a, 200, o)
  /\ UNCHANGED <<program, MAX_WITHDRAW, day, nreq, nextOrder, issued,
                 balances, pendingOrders, processedOrders, withdrawHistory,
                 users, withdraw_requests, withdrawals,
                 credits, settled, admitted>>

\* part_000:128 on the snapshot read at line 126
SkipCallback(trx) == trx.t = "undefined" \/ trx.v.status = "success"

\* POST /api/midtrans-callback up to the transaction: signature check and
\* the read of the order document (outside the transaction)
Callback_Get(p) ==
  /\ program = "firestore"
  /\ CanReceive(p)
  /\ \E n \in Notifications :
       LET o == n.order_id
           trx == IF o \in DOMAIN transactions
                  THEN [t |-> "doc", v |-> transactions[o]]
                  ELSE [t |-> "undefined", v |-> 0]
       IN IF ~SignatureOk(n)
          THEN Respond(p, "callback", n, 403, "Invalid Signature")
          ELSE IF SkipCallback(trx)
          THEN Respond(p, "callback", n, 200, "OK")
          ELSE IF n.transaction_status = "settlement"
          THEN Await(p, "callback", n, "runTransaction", [trx |-> trx.v])
          ELSE Respond(p, "callback", n, 200, "OK")
  /\ nreq' = nreq + 1
  /\ UNCHANGED <<program, MAX_WITHDRAW, day, nextOrder, issued, stores, history>>

\* db.runTransaction of the callback, part_000:134-143: reads the user
\* document, writes the balance and the order status, commits as one unit.
\* A missing user document makes userDoc.data() undefined: the body throws.
Callback_Txn(p) ==
  /\ program = "firestore"
  /\ reqs[p].kind = "callback" /\ reqs[p].pc = "runTransaction"
  /\ LET n == reqs[p].args
         o == n.order_id
         trx == reqs[p].loc.trx
     IN IF trx.uid \notin DOMAIN users
        THEN /\ Respond(p, "callback", n, 500, "Error")
             /\ UNCHANGED <<users, transactions, credits, settled>>
        ELSE LET balance == DocBalance(users[trx.uid])
             IN /\ users' = [users EXCEPT ![trx.uid].balance = balance + trx.amount]
                /\ transactions' = [transactions EXCEPT ![o].status = "success"]
                /\ credits' = Credit(o)
                /\ settled' = Settle(o)
                /\ Respond(p, "callback", n, 200, "OK")
  /\ UNCHANGED <<program, MAX_WITHDRAW, day, nreq, nextOrder, issued,
                 balances, pendingOrders, processedOrders, withdrawHistory,
                 withdraw_requests, withdrawals, created, admitted>>

\* POST /api/withdraw up to the transaction: token, amount check, and the
\* read of the balance (outside the transaction)
WithdrawFs_Get(p) ==
  /\ program = "firestore"
  /\ CanReceive(p)
  /\ \E a \in WithdrawFsBodies :
       LET uid == VerifyIdToken(a.token)
       IN IF VerifyToken(a.token) # ""
          THEN Respond(p, "withdraw", a, 401, VerifyToken(a.token))
          ELSE IF Falsy(a.amount) \/ a.amount.v <= 0
          THEN Respond(p, "withdraw", a, 400, "Invalid amount")
          ELSE IF uid \notin DOMAIN users
          THEN Respond(p, "withdraw", a, 500, "error")
          ELSE IF Insufficient(DocBalance(users[uid]), a.amount.v)
          THEN Respond(p, "withdraw", a, 400, "Saldo tidak cukup")
          ELSE Await(p, "withdraw", a, "runTransaction",
                     [uid |-> uid, balance |-> DocBalance(users[uid])])
  /\ nreq' = nreq + 1
  /\ UNCHANGED <<program, MAX_WITHDRAW, day, nextOrder, issued, stores, history>>

\* db.runTransaction of the withdrawal, part_000:172-182: writes the balance
\* computed from the earlier read and adds the withdraw request
WithdrawFs_Txn(p) ==
  /\ program = "firestore"
  /\ reqs[p].kind = "withdraw" /\ reqs[p].pc = "runTransaction"
  /\ LET a == reqs[p].args
         uid == reqs[p].loc.uid
         balance == reqs[p].loc.balance
     IN /\ users' = [users EXCEPT ![uid].balance = balance - a.amount.v]
        /\ withdraw_requests' = Append(withdraw_requests,
              [uid |-> uid, amount |-> a.amount.v, status |-> "pending", created_at |-> day])
        /\ admitted' = Admit(uid, day, a.amount.v)
        /\ Respond(p, "withdraw", a, 200, "Withdraw menunggu approval")
  /\ UNCHANGED <<program, MAX_WITHDRAW, day, nreq, nextOrder, issued,
                 balances, pendingOrders, processedOrders, withdrawHistory,
                 transactions, withdrawals, created, credits, settled>>

(***************************************************************************)
(* Revision "server": src/server.js lines 1-213                            *)
(***************************************************************************)

\* POST /api/topup up to the gateway call
TopupSrv_Begin(p) ==
  /\ program = "server"
  /\ CanReceive(p)
  /\ \E b \in TopupBodies :
       LET a == [uid |-> b.userId, amount |-> b.amount] IN
       IF a.uid = UNDEF \/ Falsy(a.amount) \/ a.amount.v < 10000
       THEN /\ Respond(p, "topup", a, 400, "Invalid request")
            /\ UNCHANGED <<nextOrder, issued>>
       ELSE /\ nextOrder < MaxOrders
            /\ nextOrder' = nextOrder + 1
            /\ \/ /\ issued' = issued \cup {OrderId(program, nextOrder')}
                  /\ Await(p, "topup", a, "createTransaction",
                           [orderId |-> OrderId(program, nextOrder')])
               \/ /\ issued' = issued
                  /\ Respond(p, "topup", a, 500, "Internal server error")
  /\ nreq' = nreq + 1
  /\ UNCHANGED <<program, MAX_WITHDRAW, day, stores, history>>

\* POST /api/topup after the gateway call
TopupSrv_Store(p) ==
  /\ program = "server"
  /\ reqs[p].kind = "topup" /\ reqs[p].pc = "createTransaction"
  /\ LET o == reqs[p].loc.orderId
         a == reqs[p].args
     IN /\ transactions' = Put(transactions, o,
              [uid |-> a.uid, amount |-> a.amount.v, status |-> "pending"])
        /\ created' = Put(created, o, [userId |-> a.uid, amount |-> a.amount.v])
        /\ Respond(p, "topup", a, 200, o)
  /\ UNCHANGED <<program, MAX_WITHDRAW, day, nreq, nextOrder, issued,
                 balances, pendingOrders, processedOrders, withdrawHistory,
                 users, withdraw_requests, withdrawals,
                 credits, settled, admitted>>

\* POST /api/midtrans/webhook, server.js:119-159.  update() of a document
\* that does not exist rejects, which the catch turns into a 500.
WebhookSrv(p) ==
  /\ program = "server"
  /\ CanReceive(p)
  /\ \E n \in Notifications :
       LET o == n.order_id
       IN IF ~SignatureOk(n)
          THEN /\ Respond(p, "webhook", n, 403, "Invalid signature")
               /\ UNCHANGED <<transactions, settled>>
          ELSE IF IsSettlement(n)
          THEN IF o \in DOMAIN transactions
               THEN /\ transactions' = [transactions EXCEPT ![o].status = "success"]
                    /\ settled' = Settle(o)
                    /\ Respond(p, "webhook", n, 200, "Webhook processed")
               ELSE /\ Respond(p, "webhook", n, 500, "Webhook error")
                    /\ UNCHANGED <<transactions, settled>>
          ELSE IF n.transaction_status = "expire"
          THEN IF o \in DOMAIN transactions
               THEN /\ transactions' = [transactions EXCEPT ![o].status = "expired"]
                    /\ Respond(p, "webhook", n, 200, "Webhook processed")
                    /\ UNCHANGED settled
               ELSE /\ Respond(p, "webhook", n, 500, "Webhook error")
                    /\ UNCHANGED <<transactions, settled>>
          ELSE /\ Respond(p, "webhook", n, 200, "Webhook processed")
               /\ UNCHANGED <<transactions, settled>>
  /\ nreq' = nreq + 1
  /\ UNCHANGED <<program, MAX_WITHDRAW, day, nextOrder, issued,
                 balances, pendingOrders, processedOrders, withdrawHistory,
                 users, withdraw_requests, withdrawals, created, credits, admitted>>

\* POST /api/withdraw, server.js:162-189: the request is only recorded
WithdrawSrv(p) ==
  /\ program = "server"
  /\ CanReceive(p)
  /\ \E a \in WithdrawSrvBodies :
       IF a.uid = UNDEF \/ Falsy(a.amount) \/ a.bankAccount = UNDEF
       THEN /\ Respond(p, "withdraw", a, 400, "Invalid request")
            /\ UNCHANGED <<withdrawals, admitted>>
       ELSE /\ withdrawals' = Append(withdrawals,
                 [uid |-> a.uid, amount |-> a.amount.v, status |-> "pending", createdAt |-> day])
            /\ admitted' = Admit(a.uid, day, a.amount.v)
            /\ Respond(p, "withdraw", a, 200, "Withdraw request submitted")
  /\ nreq' = nreq + 1
  /\ UNCHANGED <<program, MAX_WITHDRAW, day, nextOrder, issued,
                 balances, pendingOrders, processedOrders, withdrawHistory,
                 transactions, users, withdraw_requests,
                 created, credits, settled>>

\* a Firestore call the handler is waiting for rejects (store unavailable):
\* the catch block answers 500 and nothing was written
StorageError(p) ==
  /\ program \in {"firestore", "server"}
  /\ reqs[p].pc \in {"createTransaction", "runTransaction"}
  /\ Respond(p, reqs[p].kind, reqs[p].args, 500, "error")
  /\ UNCHANGED <<program, MAX_WITHDRAW, day, nreq, nextOrder, issued, stores, history>>

\* the server clock passes midnight (UTC)
Tick ==
  /\ day < MaxDay
  /\ day' = day + 1
  /\ UNCHANGED <<program, MAX_WITHDRAW, nreq, nextOrder, reqs, last, issued, stores, history>>

(***************************************************************************)
(* The whole system                                                        *)
(***************************************************************************)
Programs == {"inmemory", "firestore", "server"}

Init ==
  /\ program \in Programs
  /\ MAX_WITHDRAW \in (IF program = "inmemory" THEN MaxWithdrawSettings
                       ELSE {DEFAULT_MAX_WITHDRAW})
  /\ day = 0
  /\ nreq = 0
  /\ nextOrder = 0
  /\ reqs = [p \in Slots |-> Idle]
  /\ last = NoResponse
  /\ issued = {}
  /\ balances = EmptyObj
  /\ pendingOrders = EmptyObj
  /\ processedOrders = {}
  /\ withdrawHistory = EmptyObj
  /\ transactions = EmptyObj
  /\ users \in (IF program = "firestore"
                THEN {[u \in S |-> [balance |-> 0]] : S \in {{"u1"}, Users}}
                ELSE {EmptyObj})
  /\ withdraw_requests = <<>>
  /\ withdrawals = <<>>
  /\ created = EmptyObj
  /\ credits = [o \in OrderIds(program) |-> 0]
  /\ settled = [o \in OrderIds(program) |-> 0]
  /\ admitted = [u \in Users |-> [d \in Days |-> 0]]

Next ==
  \/ \E p \in Slots : Topup_Begin(p)
  \/ \E p \in Slots : Topup_Store(p)
  \/ \E p \in Slots : Webhook(p)
  \/ \E p \in Slots : Withdraw(p)
  \/ \E p \in Slots : Payment_Begin(p)
  \/ \E p \in Slots : Payment_Store(p)
  \/ \E p \in Slots : Callback_Get(p)
  \/ \E p \in Slots : Callback_Txn(p)
  \/ \E p \in Slots : WithdrawFs_Get(p)
  \/ \E p \in Slots : WithdrawFs_Txn(p)
  \/ \E p \in Slots : TopupSrv_Begin(p)
  \/ \E p \in Slots : TopupSrv_Store(p)
  \/ \E p \in Slots : WebhookSrv(p)
  \/ \E p \in Slots : WithdrawSrv(p)
  \/ \E p \in Slots : StorageError(p)
  \/ Tick

Spec == Init /\ [][Next]_vars

(***************************************************************************)
(* part_000 with a gateway that keeps notifying: the top-up side of the    *)
(* revision (payment and callback), without its withdrawals                *)
(***************************************************************************)

\* The gateway delivers the settlement notification of order o once more,
\* as it does for a paid order until the delivery is acknowledged; the
\* handler runs as in Callback_Get (part_000:109-131) up to the transaction.
Redeliver(p, o) ==
  /\ program = "firestore"
  /\ Free(p)
  /\ o \in issued
  /\ o \in DOMAIN transactions
  /\ ~SkipCallback([t |-> "doc", v |-> transactions[o]])
  /\ Await(p, "callback", Genuine(o, "settlement"), "runTransaction",
           [trx |-> transactions[o]])
  /\ UNCHANGED <<program, MAX_WITHDRAW, day, nreq, nextOrder, issued, stores, history>>

\* the transaction of the callback for order o
Callback_TxnOf(p, o) == Callback_Txn(p) /\ reqs[p].args.order_id = o

\* a suspended handler goes on: its awaited call returns or rejects
Continue(p) == Payment_Store(p) \/ Callback_Txn(p) \/ StorageError(p)

LiveInit == Init /\ program = "firestore"

LiveNext ==
  \/ \E p \in Slots : Payment_Begin(p)
  \/ \E p \in Slots : Payment_Store(p)
  \/ \E p \in Slots : Callback_Get(p)
  \/ \E p \in Slots : Callback_Txn(p)
  \/ \E p \in Slots : StorageError(p)
  \/ \E p \in Slots : \E o \in OrderIds("firestore") : Redeliver(p, o)

\* Every suspended handler goes on; the gateway delivers again as long as
\* the order is not settled; a transaction that is attempted again and again
\* is not rejected by the store every time.
LiveFairness ==
  /\ \A p \in Slots : WF_vars(Continue(p))
  /\ \A o \in OrderIds("firestore") : SF_vars(\E p \in Slots : Redeliver(p, o))
  /\ \A o \in OrderIds("firestore") : SF_vars(\E p \in Slots : Callback_TxnOf(p, o))

LiveSpec == LiveInit /\ [][LiveNext]_vars /\ LiveFairness

(***************************************************************************)
(* What can be observed of the stores                                      *)
(***************************************************************************)

\* the balance of user u: GET /api/balance/:userId in part_001, the balance
\* field of the user document in part_000; server.js keeps no balance
Balance(u) ==
  IF program = "inmemory" THEN OrZero(Lookup(balances, u))
  ELSE IF program = "firestore" /\ u \in DOMAIN users THEN DocBalance(users[u])
  ELSE 0

\* the status of order o in the order store
OrderStatus(o) ==
  IF program = "inmemory"
  THEN IF o \in processedOrders THEN "settled"
       ELSE IF o \in DOMAIN pendingOrders THEN "pending" ELSE "none"
  ELSE IF o \notin DOMAIN transactions THEN "none"
       ELSE IF transactions[o].status = "success" THEN "settled"
       ELSE transactions[o].status

AllOrders == OrderIds(program)
Terminal == {"settled", "expired", "failed"}
WebhookKinds == {"webhook", "callback"}

\* this step sends a response (it is then the value of last')
Responds ==
  \/ nreq' = nreq + 1 /\ reqs' = reqs
  \/ nreq' = nreq /\ \E p \in Slots : reqs[p].pc # "idle" /\ reqs'[p].pc = "idle"

\* this step receives a request and answers it in the same run
AnswersAtOnce == nreq' = nreq + 1 /\ reqs' = reqs

\* this step receives the webhook notification n
Receives(n) ==
  /\ nreq' = nreq + 1
  /\ \/ reqs' = reqs /\ last'.kind \in WebhookKinds /\ last'.args = n
     \/ \E p \in Slots : /\ reqs[p].pc = "idle" /\ reqs'[p].pc # "idle"
                         /\ reqs'[p].kind \in WebhookKinds /\ reqs'[p].args = n

\* n carries the signature the gateway computes for its fields
WellSigned(n) == n.signature_key = ExpectedSignature(n)

RECURSIVE SumOver(_, _)
SumOver(S, f) ==
  IF S = {} THEN 0
  ELSE LET x == CHOOSE y \in S : TRUE IN f[x] + SumOver(S \ {x}, f)

\* sum of the amounts of the settled orders of user u
SettledSum(u) ==
  LET mine == {o \in DOMAIN created : created[o].userId = u /\ OrderStatus(o) = "settled"}
  IN SumOver(mine, [o \in mine |-> created[o].amount])

\* sum of the amounts of the admitted withdrawals of user u
AdmittedSum(u) == SumOver(Days, admitted[u])

(***************************************************************************)
(* Claims                                                                  *)
(***************************************************************************)

\* one step as C1 wants it
C1_Step ==
  program \in {"inmemory", "firestore"} =>
    /\ \A o \in AllOrders : credits'[o] <= 1 /\ settled'[o] <= 1
    /\ \A o \in AllOrders :
         (credits[o] >= 1 /\ Receives(Genuine(o, "settlement")))
         => (AnswersAtOnce /\ last'.status = 200)

\* C1: in part_000 and part_001, however many correctly signed settlement
\* notifications are delivered for an order and however their handlers
\* interleave, the order's amount is credited at most once and the order is
\* marked settled at most once, and a delivery that arrives when the order
\* is already credited is answered 200.
C1_SettledExactlyOnce == [][C1_Step]_vars

\* one step as C2 wants it
C2_Step ==
  nreq' = nreq + 1 =>
    /\ \A p \in Slots :
         (reqs'[p].pc # "idle" /\ reqs[p].pc = "idle" /\ reqs'[p].kind = "callback")
         => WellSigned(reqs'[p].args)
    /\ (AnswersAtOnce /\ last'.kind \in WebhookKinds /\ ~WellSigned(last'.args))
       => (last'.status = 403 /\ UNCHANGED <<stores, history>>)

\* C2: a notification whose signature_key is not the digest of its order_id,
\* status_code, gross_amount and the server key is answered 403 in the run
\* that receives it, is never let past the signature check, and changes no
\* balance, no order and no processed-order set.
C2_BadSignatureRejected == [][C2_Step]_vars

\* C2 witness: a notification with an altered gross_amount was answered 403
C2_Witness ==
  /\ last.kind \in WebhookKinds
  /\ last.args.gross_amount = AlteredGrossAmount
  /\ last.args.order_id \in DOMAIN created
  /\ last.status = 403

\* C3: no balance is ever below zero, whatever the order and interleaving
\* of settlement notifications and withdrawal requests.
C3_BalanceNonNegative ==
  /\ \A u \in DOMAIN balances : balances[u].t = "number" => balances[u].v >= 0
  /\ \A u \in DOMAIN users : users[u].balance >= 0
  /\ \A u \in Users : Balance(u) >= 0

\* C3 witness: a user was credited, withdrew everything, and is at zero
C3_Witness ==
  \E u \in Users : AdmittedSum(u) > 0 /\ SettledSum(u) > 0 /\ Balance(u) = 0

\* C4: two withdrawal requests of one user never both pass the sufficiency
\* check against the same balance b when b covers each amount but not
\* their sum.
C4_NoStaleSufficiencyCheck ==
  \A p, q \in Slots :
    (/\ p # q
     /\ reqs[p].kind = "withdraw" /\ reqs[p].pc = "runTransaction"
     /\ reqs[q].kind = "withdraw" /\ reqs[q].pc = "runTransaction"
     /\ reqs[p].loc.uid = reqs[q].loc.uid)
    => ~(/\ reqs[p].loc.balance = reqs[q].loc.balance
         /\ reqs[p].args.amount.v <= reqs[p].loc.balance
         /\ reqs[q].args.amount.v <= reqs[q].loc.balance
         /\ reqs[p].loc.balance < reqs[p].args.amount.v + reqs[q].args.amount.v)

\* C5: in part_000 every user's balance is the sum of the amounts of the
\* user's settled orders minus the sum of the amounts of the user's
\* admitted withdrawals (stated for the runs in which no order has been
\* credited twice, so that a failure is the withdrawal's own).
C5_BalanceIsCreditsMinusDebits ==
  (program = "firestore" /\ \A o \in AllOrders : credits[o] <= 1) =>
    \A u \in DOMAIN users : Balance(u) = SettledSum(u) - AdmittedSum(u)

\* C6: an order is settled if and only if its amount has been credited to
\* its user's balance.
C6_SettledIffCredited ==
  \A o \in AllOrders : (OrderStatus(o) = "settled") <=> (credits[o] >= 1)

\* one step as C7 wants it
C7_Step ==
  \A o \in AllOrders :
    /\ OrderStatus(o) \in Terminal => OrderStatus(o)' = OrderStatus(o)
    /\ OrderStatus(o) = "pending" => OrderStatus(o)' \in {"pending"} \cup Terminal

\* C7: an order leaves pending only to settled, expired or failed, and no
\* notification changes the status of an order that is in one of those.
C7_StatusMonotone == [][C7_Step]_vars

\* one step as C8 wants it
C8_Step ==
  \A o \in DOMAIN created :
    LET u == created[o].userId
        A == created[o].amount
    IN /\ (/\ Responds
           /\ last'.kind \in WebhookKinds
           /\ last'.args = Genuine(o, "settlement")
           /\ last'.status = 200
           /\ OrderStatus(o) = "pending")
          => (Balance(u)' = Balance(u) + A /\ OrderStatus(o)' = "settled")
       /\ (OrderStatus(o) = "settled" /\ Receives(Genuine(o, "expire")))
          => /\ AnswersAtOnce /\ last'.status = 200
             /\ Balance(u)' = Balance(u)
             /\ OrderStatus(o)' = "settled"

\* C8: when a valid settlement notification for a pending order of amount A
\* is acknowledged, the user's balance has grown by exactly A and the order
\* is settled; a later valid expire notification for that order is
\* acknowledged and changes neither the balance nor the status.
C8_RoundTrip == [][C8_Step]_vars

\* C9: in part_000 and part_001, for every user and every day bucket, the
\* admitted withdrawals of that day sum to at most DAILY_WITHDRAW_LIMIT.
C9_DailyCap ==
  program \in {"inmemory", "firestore"} =>
    \A u \in Users : \A d \in Days : admitted[u][d] <= DAILY_WITHDRAW_LIMIT

\* the request of 15,000,000 by user u
Big(u) == [userId |-> u, amount |-> Num(15000000)]

\* this step handles the withdrawal request of 15,000,000 by user u
HandlesBig(u) ==
  /\ program = "inmemory"
  /\ AnswersAtOnce
  /\ last'.kind = "withdraw"
  /\ last'.args = Big(u)

\* after this step a second request of 15,000,000 by user u, on the same
\* day, is refused for the daily limit
NextBigRefused(u) ==
  WithdrawOutcome(Big(u), Balance(u)', TodayTotal(withdrawHistory', u, day'), MAX_WITHDRAW')
    = "Daily limit exceeded"

\* one step as C10 states it
C10_Step_Original ==
  \A u \in Users :
    (/\ MAX_WITHDRAW = DEFAULT_MAX_WITHDRAW
     /\ Balance(u) >= 30000000
     /\ HandlesBig(u))
    => (last'.status = 200 /\ NextBigRefused(u))

\* C10 as stated: with the limits at their defaults, of two requests of
\* 15,000,000 by a user with at least 30,000,000 exactly one is admitted
\* and the other is refused for the daily limit.
C10_Original == [][C10_Step_Original]_vars

\* one step as the amended C10 wants it
C10_Step ==
  \A u \in Users :
    (/\ MAX_WITHDRAW >= 15000000
     /\ Balance(u) >= 30000000
     /\ TodayTotal(withdrawHistory, u, day) = 0
     /\ HandlesBig(u))
    => (last'.status = 200 /\ NextBigRefused(u))

\* C10 amended: with DAILY_WITHDRAW_LIMIT = 20,000,000 and MAX_WITHDRAW set
\* to at least 15,000,000, of two requests of 15,000,000 by a user who has
\* at least 30,000,000 and has withdrawn nothing that day, handled on the
\* same day, the first is admitted and the second is refused with
\* "Daily limit exceeded".
C10_OneOfTwoAdmitted == [][C10_Step]_vars

\* C10 witness: the first request of 15,000,000 was admitted and the
\* second one is about to be refused for the daily limit
C10_Witness ==
  \E u \in Users :
    /\ program = "inmemory" /\ MAX_WITHDRAW >= 15000000
    /\ last.kind = "withdraw" /\ last.status = 200
    /\ last.args = Big(u)
    /\ Balance(u) >= 15000000
    /\ WithdrawOutcome(Big(u), Balance(u), TodayTotal(withdrawHistory, u, day), MAX_WITHDRAW)
         = "Daily limit exceeded"

\* ---- C11 ----

\* one step as C11 wants it
C11_Step ==
  \A n \in Notifications :
    (WellSigned(n) /\ OrderStatus(n.order_id) = "none" /\ Receives(n))
    => (AnswersAtOnce /\ last'.status = 200 /\ UNCHANGED <<stores, history>>)

\* C11: a correctly signed notification for an order_id that is not in the
\* order store, whatever its transaction_status, is answered 200 in the run
\* that receives it and changes no balance and no order.
C11_UnknownOrderAcknowledged == [][C11_Step]_vars

\* ---- C12 ----

\* the user a withdrawal request is made for
WithdrawUser(a) ==
  IF "userId" \in DOMAIN a THEN a.userId
  ELSE IF "uid" \in DOMAIN a THEN a.uid
  ELSE VerifyIdToken(a.token)

\* the amount of a withdrawal request is a number that is not positive or
\* is above MAX_WITHDRAW
InvalidWithdrawAmount(amount) ==
  amount.t = "number" /\ (amount.v <= 0 \/ amount.v > MAX_WITHDRAW)

\* one step as C12 wants it
C12_Step ==
  program \in {"inmemory", "firestore"} =>
    /\ (AnswersAtOnce /\ last'.kind = "withdraw"
        /\ InvalidWithdrawAmount(last'.args.amount)
        /\ (program = "firestore" => WithdrawUser(last'.args) \in DOMAIN users))
       => (last'.status \in 400..499 /\ UNCHANGED <<stores, history>>)
    /\ \A p \in Slots :
         (reqs[p].pc = "idle" /\ reqs'[p].pc # "idle" /\ reqs'[p].kind = "withdraw")
         => ~InvalidWithdrawAmount(reqs'[p].args.amount)

\* C12: in part_000 and part_001 a withdrawal request whose amount is <= 0
\* or above MAX_WITHDRAW is answered with a 4xx response in the run that
\* receives it, never reaches the balance check, and leaves every balance
\* and the withdrawal history unchanged (stated in part_000 for users that
\* have a user document, so that a failure is the amount check's own).
C12_InvalidAmountRejected == [][C12_Step]_vars

\* ---- C13 ----

TopupKinds == {"topup", "payment"}

\* the body of a top-up request lacks the user id (or the bearer token)
MissingUser(a) == \E f \in (DOMAIN a) \cap {"userId", "uid", "token"} : a[f] = UNDEF

\* the top-up request lacks the user id or the amount, or asks for less
\* than MIN_TOPUP
BadTopup(a) == MissingUser(a) \/ a.amount.t # "number" \/ a.amount.v < MIN_TOPUP

\* one step as C13 wants it
C13_Step ==
  /\ (AnswersAtOnce /\ last'.kind \in TopupKinds /\ BadTopup(last'.args))
     => /\ last'.status \in {400, 401}
        /\ nextOrder' = nextOrder /\ issued' = issued
        /\ UNCHANGED <<stores, history>>
  /\ \A p \in Slots :
       (reqs[p].pc = "idle" /\ reqs'[p].pc # "idle" /\ reqs'[p].kind \in TopupKinds)
       => ~BadTopup(reqs'[p].args)

\* C13: a top-up request that asks for less than MIN_TOPUP, or that lacks
\* the user id or the amount, is answered 400 (401 for a missing token) in
\* the run that receives it: no order id is generated, the gateway's
\* createTransaction is not called, and no order is stored.
C13_BadTopupRejected == [][C13_Step]_vars

\* C13 witness: a request for MIN_TOPUP - 1 was answered 400 and no order
\* was stored
C13_Witness ==
  /\ last.kind \in TopupKinds
  /\ last.args.amount = Num(MIN_TOPUP - 1)
  /\ ~MissingUser(last.args)
  /\ last.status = 400
  /\ nextOrder = 0 /\ issued = {} /\ created = EmptyObj

\* ---- C14 ----

RefusalMessages == {"Insufficient balance", "Daily limit exceeded", "Saldo tidak cukup"}

\* this step leaves every balance, every daily total and the withdrawal
\* records as they were
WithdrawFrame ==
  /\ \A u \in Users : Balance(u)' = Balance(u)
  /\ \A u \in Users : \A d \in Days :
       TodayTotal(withdrawHistory', u, d) = TodayTotal(withdrawHistory, u, d)
  /\ UNCHANGED <<balances, users, withdraw_requests, withdrawals, admitted>>

\* one step as C14 wants it
C14_Step ==
  program \in {"inmemory", "firestore"} =>
    /\ (Responds /\ last'.kind = "withdraw" /\ last'.status = 400
        /\ last'.msg \in RefusalMessages)
       => WithdrawFrame
    /\ (AnswersAtOnce /\ last'.kind = "withdraw"
        /\ last'.args.amount.t = "number"
        /\ last'.args.amount.v > Balance(WithdrawUser(last'.args)))
       => (last'.status # 200 /\ WithdrawFrame)
    /\ \A p \in Slots :
         (reqs[p].pc = "idle" /\ reqs'[p].pc # "idle" /\ reqs'[p].kind = "withdraw")
         => reqs'[p].args.amount.v <= Balance(WithdrawUser(reqs'[p].args))

\* C14: in part_000 and part_001 a withdrawal refused for insufficient
\* balance or for the daily limit leaves the user's balance and daily total
\* as they were and creates no withdrawal record, and a request for more
\* than the balance is always refused in the run that receives it.
C14_RefusedWithdrawalChangesNothing == [][C14_Step]_vars

\* C14 witness: a user with a positive balance asked for more and was
\* refused for insufficient balance
C14_Witness ==
  /\ program \in {"inmemory", "firestore"}
  /\ last.kind = "withdraw" /\ last.status = 400
  /\ last.msg \in {"Insufficient balance", "Saldo tidak cukup"}
  /\ Balance(WithdrawUser(last.args)) > 0
  /\ last.args.amount.v > Balance(WithdrawUser(last.args))

\* ---- C15 ----

\* one step as C15 wants it
C15_Step ==
  program \in {"inmemory", "firestore"} =>
    \A o \in DOMAIN created :
      (/\ Responds
       /\ last'.kind \in WebhookKinds
       /\ last'.args = Genuine(o, "capture")
       /\ last'.status = 200
       /\ OrderStatus(o) = "pending")
      => /\ Balance(created[o].userId)' = Balance(created[o].userId) + created[o].amount
         /\ OrderStatus(o)' = "settled"

\* C15: in part_000 and part_001, when a correctly signed "capture"
\* notification for a pending order is acknowledged, the order's amount has
\* been credited to its user and the order is settled, as for "settlement".
C15_CaptureSettles == [][C15_Step]_vars

\* ---- C16 ----

\* one step as C16 wants it
C16_Step ==
  \A o \in DOMAIN created :
    /\ (/\ Responds
        /\ last'.kind \in WebhookKinds
        /\ last'.args = Genuine(o, "expire")
        /\ OrderStatus(o) = "pending")
       => /\ last'.status = 200
          /\ OrderStatus(o)' = "expired"
          /\ \A u \in Users : Balance(u)' = Balance(u)
    /\ (OrderStatus(o) = "expired" /\ Receives(Genuine(o, "expire")))
       => (AnswersAtOnce /\ last'.status = 200 /\ UNCHANGED <<stores, history>>)

\* C16: a correctly signed "expire" notification for a pending order is
\* acknowledged, marks the order expired and changes no balance; a repeated
\* one for the expired order is acknowledged and changes nothing.
C16_ExpireMarksExpired == [][C16_Step]_vars

\* ---- C17 ----

\* n is correctly signed, names an order that is in the store, and its
\* transaction_status is neither a success nor an expiry status
OtherStatus(n) ==
  /\ WellSigned(n)
  /\ n.transaction_status \notin {"settlement", "capture", "expire"}
  /\ OrderStatus(n.order_id) # "none"

\* one step as C17 wants it
C17_Step ==
  /\ (AnswersAtOnce /\ last'.kind \in WebhookKinds /\ OtherStatus(last'.args))
     => (last'.status = 200 /\ UNCHANGED <<stores, history>>)
  /\ \A p \in Slots :
       (reqs[p].pc = "idle" /\ reqs'[p].pc # "idle" /\ reqs'[p].kind \in WebhookKinds)
       => ~OtherStatus(reqs'[p].args)

\* C17: a correctly signed notification for an order in the store whose
\* transaction_status is neither settlement, capture nor expire (here
\* "pending") is answered 200 in the run that receives it and changes no
\* balance, no order and no processed-order marker.
C17_OtherStatusIsNoOp == [][C17_Step]_vars

\* C17 witness: a "pending" notification for a pending order was
\* acknowledged and the order is still pending and uncredited
C17_Witness ==
  /\ last.kind \in WebhookKinds
  /\ last.args.order_id \in DOMAIN created
  /\ last.args = Genuine(last.args.order_id, "pending")
  /\ last.status = 200
  /\ OrderStatus(last.args.order_id) = "pending"
  /\ credits[last.args.order_id] = 0

\* ---- C19 ----

\* user u has no ledger account yet
NoAccount(u) ==
  IF program = "inmemory" THEN u \notin DOMAIN balances ELSE u \notin DOMAIN users

\* one step as C19 wants it: the run that applies the settlement
C19_Step ==
  program \in {"inmemory", "firestore"} =>
    \A p \in Slots : \A o \in DOMAIN created :
      (/\ Webhook(p) \/ Callback_Txn(p)
       /\ last'.args = Genuine(o, "settlement")
       /\ OrderStatus(o) = "pending"
       /\ NoAccount(created[o].userId))
      => /\ last'.status = 200
         /\ Balance(created[o].userId)' = created[o].amount
         /\ OrderStatus(o)' = "settled"

\* C19: in part_000 and part_001, when the settlement of a pending order is
\* applied for a user who has no ledger account, and storage does not fail,
\* the notification is acknowledged, the user's balance is the order's
\* amount and the order is settled.
C19_LazyAccount == [][C19_Step]_vars

\* ---- C20 ----

\* the user id and amount the order store holds for order o
StoredOrder(o) ==
  IF program = "inmemory"
  THEN [userId |-> pendingOrders[o].userId, amount |-> pendingOrders[o].amount]
  ELSE [userId |-> transactions[o].uid, amount |-> transactions[o].amount]
InStore(o) ==
  IF program = "inmemory" THEN o \in DOMAIN pendingOrders ELSE o \in DOMAIN transactions

\* one step as C20 wants it
C20_Step ==
  program \in {"inmemory", "firestore"} =>
    /\ \A o \in AllOrders :
         credits'[o] # credits[o] =>
           /\ o \in DOMAIN created
           /\ Balance(created[o].userId)' = Balance(created[o].userId) + created[o].amount
           /\ \A v \in Users \ {created[o].userId} : Balance(v)' = Balance(v)
    /\ \A o \in AllOrders :
         InStore(o)' => (o \in DOMAIN created' /\ StoredOrder(o)' = created'[o])
    /\ \A o \in DOMAIN created : o \in DOMAIN created' /\ created'[o] = created[o]

\* C20: in part_000 and part_001 every credit adds exactly the amount the
\* order was created with to the balance of the user it was created for and
\* to no other balance, whatever gross_amount the notification carries, and
\* the user id and amount stored with an order never change.
C20_CreditIsStoredAmount == [][C20_Step]_vars

\* C20 witness: an order of 30,000,000 was settled by a notification whose
\* gross_amount is "10000.00", and its user holds 30,000,000
C20_Witness ==
  \E o \in DOMAIN created :
    /\ program \in {"inmemory", "firestore"}
    /\ created[o].amount = 30000000
    /\ credits[o] = 1
    /\ last.kind \in WebhookKinds /\ last.status = 200
    /\ last.args = Genuine(o, "settlement")
    /\ last.args.gross_amount = GrossAmount
    /\ Balance(created[o].userId) = 30000000

\* ---- C18 ----

\* the latest response is a server error to the settlement notification of
\* order o, and the order is in the store and not settled
SettlementFailed(o) ==
  /\ last.kind = "callback" /\ last.status = 500
  /\ last.args = Genuine(o, "settlement")
  /\ OrderStatus(o) = "pending"

\* C18: in part_000, with the gateway delivering again after every server
\* error and the store not failing forever, a settlement notification for a
\* pending order that was answered with a server error is followed by the
\* order being settled.
C18_SettlementNeverLost ==
  \A o \in OrderIds("firestore") :
    [](SettlementFailed(o) => <>(OrderStatus(o) = "settled"))

\* ---- C21 ----

\* C21: in part_001 a withdrawal request with a valid amount that is above
\* the user's balance and would also take the day's total above
\* DAILY_WITHDRAW_LIMIT is refused with "Daily limit exceeded" (the daily
\* cap is checked before the balance).  Stated of the answer the handler
\* gives in the current state to each request it can receive.
C21_DailyCapBeforeSufficiency ==
  program = "inmemory" =>
    \A a \in WithdrawBodies :
      (/\ a.userId # UNDEF
       /\ a.amount.t = "number" /\ a.amount.v > 0
       /\ ~ExceedsMax(a.amount.v, MAX_WITHDRAW)
       /\ a.amount.v > Balance(a.userId)
       /\ TodayTotal(withdrawHistory, a.userId, day) + a.amount.v > DAILY_WITHDRAW_LIMIT)
      => WithdrawOutcome(a, Balance(a.userId),
                         TodayTotal(withdrawHistory, a.userId, day), MAX_WITHDRAW)
           = "Daily limit exceeded"

\* ---- C22 ----

\* this step sends the response of a top-up request that carries the Snap
\* token of order o
RelaysToken(o) ==
  Responds /\ last'.kind \in TopupKinds /\ last'.status = 200 /\ last'.msg = o

\* one step as C22 wants it
C22_Step ==
  /\ \A o \in AllOrders :
       RelaysToken(o) => (o \in issued /\ OrderStatus(o)' = "pending")
  /\ \A o \in AllOrders :
       (o \in DOMAIN created' /\ o \notin DOMAIN created) <=> RelaysToken(o)
  /\ \A o \in AllOrders : OrderStatus(o) # "none" => OrderStatus(o)' # "none"
  /\ \A o \in Payable : OrderStatus(o) # "none"
  /\ (/\ Responds /\ last'.kind \in WebhookKinds
      /\ WellSigned(last'.args) /\ last'.args.order_id \in issued
      /\ last'.args.transaction_status = "settlement"
      /\ last'.status = 200)
     => /\ OrderStatus(last'.args.order_id) # "none"
        /\ program # "server" => credits'[last'.args.order_id] >= 1

ValidToken(a) == "token" \in DOMAIN a /\ VerifyToken(a.token) = ""

\* one step as C23 wants it
C23_Step ==
  program \in {"inmemory", "firestore"} =>
    /\ (/\ Responds /\ last'.kind = "withdraw"
        /\ ~ValidToken(last'.args)
        /\ last'.args.amount.t = "number" /\ last'.args.amount.v > 0)
       => (last'.status # 200 /\ WithdrawFrame)
    /\ (/\ Responds /\ last'.kind = "withdraw"
        /\ ValidToken(last'.args) /\ last'.status = 200)
       => \A u \in Users \ {VerifyIdToken(last'.args.token)} : Balance(u)' = Balance(u)

\* C23: in part_000 and part_001 a withdrawal request of a positive amount
\* that carries no valid bearer token is not admitted (the claim: it is
\* answered 401) and changes no balance and no withdrawal record, and an
\* admitted withdrawal changes the balance of the token's user only.
C23_WithdrawNeedsToken == [][C23_Step]_vars

\* ---- C24 ----

\* one step as C24 wants it
C24_Step ==
  program \in {"inmemory", "firestore"} =>
    \A o \in DOMAIN created :
      (Responds /\ last'.kind \in WebhookKinds /\ last'.args = Restated(o))
      => /\ credits'[o] = credits[o]
         /\ \A u \in Users : Balance(u)' = Balance(u)
         /\ OrderStatus(o)' = OrderStatus(o)

\* C24: in part_000 and part_001 a notification that carries the order_id,
\* status_code, gross_amount and signature_key of the gateway's "pending"
\* notification for an order, with transaction_status changed to
\* "settlement", has the ledger effect of the notification it was made
\* from: no credit, no balance change, no status change.
C24_StatusIsAuthenticated == [][C24_Step]_vars

\* ---- C25 ----

\* the user order o was created for ("" when o is not an order)
OwnerOf(o) == IF o \in DOMAIN created THEN created[o].userId ELSE ""

\* this step leaves the balance and the daily totals of every user but u,
\* and the status of every order but o, as they were
OthersUnchanged(u, o) ==
  /\ \A v \in Users \ {u} :
       /\ Balance(v)' = Balance(v)
       /\ \A d \in Days : TodayTotal(withdrawHistory', v, d) = TodayTotal(withdrawHistory, v, d)
       /\ admitted'[v] = admitted[v]
  /\ \A q \in AllOrders \ {o} : OrderStatus(q)' = OrderStatus(q)

\* one step as C25 wants it
C25_Step ==
  /\ (Responds /\ last'.kind \in WebhookKinds)
     => OthersUnchanged(OwnerOf(last'.args.order_id), last'.args.order_id)
  /\ (Responds /\ last'.kind = "withdraw")
     => OthersUnchanged(WithdrawUser(last'.args), "")

\* C25: the run that answers a notification for order o of user u changes
\* no balance and no daily total but u's and no order status but o's, and
\* the run that answers a withdrawal of user u changes no balance and no
\* daily total but u's and no order status.
C25_Isolation == [][C25_Step]_vars

\* C25 witness: an order of one user was settled while an order of another
\* user is pending, and that user's balance is zero
C25_Witness ==
  \E o, q \in DOMAIN created :
    /\ created[o].userId # created[q].userId
    /\ last.kind \in WebhookKinds /\ last.status = 200
    /\ last.args = Genuine(o, "settlement")
    /\ credits[o] = 1 /\ OrderStatus(o) = "settled"
    /\ OrderStatus(q) = "pending"
    /\ Balance(created[o].userId) = created[o].amount
    /\ Balance(created[q].userId) = 0

====
